---- MODULE Spec2Model ----
(***************************************************************************)
(* Model of the translation core of translator_api.py: the Normalizer     *)
(* (clean_and_prepare_text), the Segmenter (split_text_smart), the engine *)
(* wrapper (translate_chunk_robust) and the Orchestrator                  *)
(* (translate_with_structure_preservation).                               *)
(*                                                                         *)
(* A Python str is a sequence of characters; a character is a one-token   *)
(* TLA+ string.  Non-ASCII characters are named by their code point.      *)
(***************************************************************************)
EXTENDS Integers, Sequences, FiniteSets, TLC

----------------------------------------------------------------------------
(* Characters *)

SP  == " "
TAB == "\t"
NL  == "\n"
ARABIC_QUESTION_MARK == "U+061F"
ARABIC_FULL_STOP     == "U+06D4"
DEVANAGARI_DANDA     == "U+0964"
ARABIC_COMMA         == "U+060C"
ARABIC_LETTER        == "U+0628"

\* characters Python's str.strip(), str.split() and the regex class \s treat
\* as whitespace (those that occur in the modelled inputs)
Whitespace == {SP, TAB, NL}

\* the regex class [a-zA-Z] of line 114 (the Latin letters of the inputs)
LatinLetters == {"a", "A", "x", "X", "y"}

\* the character class of sentence_pattern, line 102
PatternTerminators ==
    {".", "!", "?", ARABIC_QUESTION_MARK, DEVANAGARI_DANDA}

\* Python's None, a value no str equals
None == <<"None">>

----------------------------------------------------------------------------
(* Python string primitives *)

MinOf(S) == CHOOSE x \in S : \A y \in S : x <= y

\* n copies of character c
Rep(c, n) == [k \in 1..n |-> c]

\* str.strip()
strip(s) ==
    LET n == Len(s)
        keep == {k \in 1..n : s[k] \notin Whitespace}
        back == {k \in 1..n : s[n + 1 - k] \notin Whitespace}
    IN  IF keep = {} THEN <<>>
        ELSE SubSeq(s, MinOf(keep), n + 1 - MinOf(back))

\* str.split(sep) for a non-empty separator: leftmost, non-overlapping
RECURSIVE split(_, _)
split(s, sep) ==
    LET hits == {k \in 1..(Len(s) - Len(sep) + 1) :
                    SubSeq(s, k, k + Len(sep) - 1) = sep}
    IN  IF hits = {} THEN <<s>>
        ELSE LET k == MinOf(hits)
             IN  <<SubSeq(s, 1, k - 1)>>
                 \o split(SubSeq(s, k + Len(sep), Len(s)), sep)

\* str.split() with no argument: the maximal runs of non-whitespace
RECURSIVE split_ws(_)
split_ws(s) ==
    LET keep == {k \in 1..Len(s) : s[k] \notin Whitespace}
    IN  IF keep = {} THEN <<>>
        ELSE LET b  == MinOf(keep)
                 ws == {k \in b..Len(s) : s[k] \in Whitespace}
                 e  == IF ws = {} THEN Len(s) + 1 ELSE MinOf(ws)
             IN  <<SubSeq(s, b, e - 1)>> \o split_ws(SubSeq(s, e, Len(s)))

\* sep.join(parts)
RECURSIVE join(_, _)
join(sep, parts) ==
    IF parts = <<>> THEN <<>>
    ELSE IF Len(parts) = 1 THEN parts[1]
    ELSE parts[1] \o sep \o join(sep, Tail(parts))

\* [x for x in parts if keep(x)]
RECURSIVE SelectNonBlank(_)
SelectNonBlank(parts) ==
    IF parts = <<>> THEN <<>>
    ELSE IF strip(parts[1]) # <<>>
         THEN <<parts[1]>> \o SelectNonBlank(Tail(parts))
         ELSE SelectNonBlank(Tail(parts))

----------------------------------------------------------------------------
(* Normalizer: clean_and_prepare_text, lines 66-81 *)

\* a plausible slip: collapse only pairs of spaces, once (line 76)
RECURSIVE collapse_pairs(_)
collapse_pairs(line) ==
    IF Len(line) < 2 THEN line
    ELSE IF line[1] \in Whitespace /\ line[2] \in Whitespace
         THEN <<SP>> \o collapse_pairs(SubSeq(line, 3, Len(line)))
         ELSE <<line[1]>> \o collapse_pairs(Tail(line))

clean_line_pairs(line) ==
    IF strip(line) # <<>> THEN collapse_pairs(strip(line)) ELSE <<>>

\* lines 74-79: one line of the loop
clean_line(line) ==
    IF strip(line) # <<>> THEN join(<<SP>>, split_ws(line)) ELSE <<>>

clean_and_prepare_text(text) ==
    LET lines == split(text, <<NL>>)
        cleaned_lines == [k \in 1..Len(lines) |-> clean_line(lines[k])]
    IN  join(<<NL>>, cleaned_lines)

----------------------------------------------------------------------------
(* Segmenter: split_text_smart, lines 83-129 *)

\* last index of the run of characters of class cls that starts at k
RunEnd(s, k, cls) ==
    LET stops == {e \in k..Len(s) : s[e] \notin cls}
    IN  IF stops = {} THEN Len(s) ELSE MinOf(stops) - 1

\* re.split(r'[terms]+\s+', s): every leftmost, greedy match of one or more
\* terminators followed by one or more whitespace is cut out
RECURSIVE re_split(_, _)
re_split(s, terms) ==
    LET starts == {k \in 1..Len(s) :
                      /\ s[k] \in terms
                      /\ RunEnd(s, k, terms) < Len(s)
                      /\ s[RunEnd(s, k, terms) + 1] \in Whitespace}
    IN  IF starts = {} THEN <<s>>
        ELSE LET k == MinOf(starts)
                 w == RunEnd(s, RunEnd(s, k, terms) + 1, Whitespace)
             IN  <<SubSeq(s, 1, k - 1)>>
                 \o re_split(SubSeq(s, w + 1, Len(s)), terms)

\* lines 102-103: sentence_pattern and the split of a long paragraph
split_sentences(paragraph) == re_split(paragraph, PatternTerminators)

\* line 114: re.search(r'[a-zA-Z]', sentence)
has_latin(sentence) == \E k \in 1..Len(sentence) : sentence[k] \in LatinLetters

\* a plausible slip at lines 115-117: the ending added back without its space
with_ending_no_space(sentences, i) ==
    LET sentence == strip(sentences[i])
    IN  IF i < Len(sentences)
        THEN IF has_latin(sentence) THEN sentence \o <<".">>
             ELSE sentence \o <<ARABIC_COMMA>>
        ELSE sentence

\* lines 108-117: sentence i of the split, stripped, with the ending added back
\* (except for the last sentence)
with_ending(sentences, i) ==
    LET sentence == strip(sentences[i])
    IN  IF i < Len(sentences)
        THEN IF has_latin(sentence) THEN sentence \o <<".", SP>>
             ELSE sentence \o <<ARABIC_COMMA, SP>>
        ELSE sentence

\* a plausible slip at line 120: the limit is tested on the sentence alone
flush_needed_sentence_only(current_chunk, sentence, max_length) ==
    Len(sentence) > max_length /\ current_chunk # <<>>

\* line 120: adding this sentence exceeds the limit and the buffer is not empty
flush_needed(current_chunk, sentence, max_length) ==
    Len(current_chunk \o sentence) > max_length /\ current_chunk # <<>>

\* lines 105-127: the packing loop from sentence i on
RECURSIVE pack_sentences(_, _, _, _, _)
pack_sentences(sentences, i, current_chunk, chunks, max_length) ==
    IF i > Len(sentences)
    THEN IF strip(current_chunk) # <<>>
         THEN Append(chunks, strip(current_chunk))
         ELSE chunks
    ELSE IF strip(sentences[i]) = <<>>
    THEN pack_sentences(sentences, i + 1, current_chunk, chunks, max_length)
    ELSE LET sentence == with_ending(sentences, i)
         IN  IF flush_needed(current_chunk, sentence, max_length)
             THEN pack_sentences(sentences, i + 1, sentence,
                                 Append(chunks, strip(current_chunk)),
                                 max_length)
             ELSE pack_sentences(sentences, i + 1, current_chunk \o sentence,
                                 chunks, max_length)

\* lines 91-127: the chunks one paragraph contributes
paragraph_chunks(paragraph_raw, max_length) ==
    LET paragraph == strip(paragraph_raw)
    IN  IF paragraph = <<>> THEN <<>>
        ELSE IF Len(paragraph) <= max_length THEN <<paragraph>>
        ELSE pack_sentences(split_sentences(paragraph), 1, <<>>, <<>>,
                            max_length)

RECURSIVE concat_chunks(_, _)
concat_chunks(paragraphs, max_length) ==
    IF paragraphs = <<>> THEN <<>>
    ELSE paragraph_chunks(paragraphs[1], max_length)
         \o concat_chunks(Tail(paragraphs), max_length)

split_text_smart(text, max_length) ==
    concat_chunks(split(text, <<NL, NL>>), max_length)

----------------------------------------------------------------------------
(* Engine wrapper: translate_chunk_robust, lines 131-195 *)

\* the length budget hard-coded at lines 210, 231 and 238
Budget == 300

\* keys of the models / tokenizers dictionaries after load_models (lines 39-49)
LoadedDirections == {"en-ar", "ar-en"}

\* str.lower() on the characters of the inputs
LowerChar(c) == IF c = "A" THEN "a" ELSE IF c = "X" THEN "x" ELSE c
lower(s) == [k \in 1..Len(s) |-> LowerChar(s[k])]

\* what tokenizer.decode(model.generate(...)) can give: a decoded string, or
\* an exception raised somewhere in lines 144-187
Raise == <<"raise">>
Decodings == {<<>>, <<"x">>, <<"y", SP>>}
Generations == Decodings \cup {Raise}
ExceptionText == <<"generation error">>

\* a plausible slip at line 195: an empty text instead of None on failure
engine_failure_empty_text == << <<>>, <<"Translation failed: ">> \o ExceptionText>>

\* line 195: the pair returned when an exception was caught
engine_failure == <<None, <<"Translation failed: ">> \o ExceptionText>>

\* first / second: the outcome of the generate+decode of lines 153-169 and of
\* the retry of lines 178-187.  Returns the pair (translation, error).
translate_chunk_robust(chunk_raw, dir, first, second) ==
    IF dir \notin LoadedDirections
    THEN <<None, <<"Invalid translation direction">> >>
    ELSE LET chunk == strip(chunk_raw)
         IN  IF chunk = <<>> THEN << <<>>, None >>
             ELSE IF first = Raise THEN engine_failure
             ELSE IF lower(strip(first)) = lower(chunk)
                  THEN IF second = Raise THEN engine_failure
                       ELSE <<strip(second), None>>
                  ELSE <<strip(first), None>>

\* Python truthiness of a str-or-None value: `if error:`, `if translation:`
truthy(v) == v # None /\ v # <<>>

----------------------------------------------------------------------------
(* Orchestrator helpers: translate_with_structure_preservation, 197-264 *)

\* a plausible slip at line 203: the text is tested without strip()
is_blank_unstripped(cleaned) == cleaned = <<>>

\* line 203: `not cleaned_text.strip()`
is_blank(cleaned) == strip(cleaned) = <<>>

\* str(i + 1) for the 0-based loop index; the model's indices are 1-based
index_text(n) == ToString(n)

\* line 234
paragraph_error(para, error) ==
    <<"Failed to translate paragraph ", index_text(para), ": ">> \o error

\* a plausible slip at line 245: the 0-based chunk index j is reported
chunk_error_zero_based(chunk, para, error) ==
    <<"Failed to translate chunk ", index_text(chunk - 1), " of paragraph ",
      index_text(para), ": ">> \o error

\* line 245
chunk_error(chunk, para, error) ==
    <<"Failed to translate chunk ", index_text(chunk), " of paragraph ",
      index_text(para), ": ">> \o error

\* a plausible slip at line 247: the translation is put in front
collect_chunk_in_front(translated, translation) ==
    IF truthy(translation) THEN <<translation>> \o translated ELSE translated

\* lines 246-247: an empty chunk translation is not collected
collect_chunk(translated, translation) ==
    IF truthy(translation) THEN Append(translated, translation) ELSE translated

\* line 250
paragraph_translation(translated) == join(<<SP>>, translated)

\* a plausible slip at line 254: paragraphs joined by a single newline
final_translation_single_newline(translated) ==
    strip(join(<<NL>>, SelectNonBlank(translated)))

\* lines 254-257: blank paragraph results are left out of the join
final_translation(translated) ==
    strip(join(<<NL, NL>>, SelectNonBlank(translated)))

----------------------------------------------------------------------------
(* Bounds and inputs *)

\* longest input of the Normalizer runs
MaxNormLen == 5
\* longest input of the Segmenter runs
MaxSegLen == 5
\* largest max_length of the Segmenter runs
MaxSegBudget == 3
\* most paragraphs of a document
MaxParas == 3
\* most non-blank paragraphs of a document
MaxNonBlank == 2
\* longest document, in characters
MaxDocLen == 700

StringsUpTo(alphabet, n) == UNION {[1..k -> alphabet] : k \in 0..n}

NormAlphabet == {"a", SP, TAB, NL}
NormInputs   == StringsUpTo(NormAlphabet, MaxNormLen)

SegAlphabet == {"a", ARABIC_LETTER, ".", "!", ARABIC_FULL_STOP, SP, NL}
SegInputs   == StringsUpTo(SegAlphabet, MaxSegLen)

\* a Latin sentence of n characters, its full stop included
Sentence(n) == Rep("a", n - 1) \o <<".">>
ThreeSentences(n) ==
    join(<<SP>>, <<Sentence(n), Sentence(n), Sentence(n)>>)

\* raw paragraphs, as a user may type them
BlankPara    == <<>>
TinyPara     == <<SP, "X", TAB, SP>>
ShortPara    == Rep("a", (2 * Budget) \div 3)
Sentences150 == ThreeSentences(Budget \div 2)
Sentences149 == ThreeSentences(Budget \div 2 - 1)

ParagraphKinds ==
    {BlankPara, TinyPara, ShortPara, Sentences150, Sentences149}

\* documents of nothing but whitespace
WhitespaceDocuments ==
    {<<>>, <<SP, SP, SP, NL, NL, SP, SP>>, <<TAB, NL, SP>>}

ParagraphLists ==
    {ps \in UNION {[1..n -> ParagraphKinds] : n \in 1..MaxParas} :
        Cardinality({k \in DOMAIN ps : ps[k] # BlankPara}) <= MaxNonBlank}

Documents ==
    WhitespaceDocuments \cup
    {d \in {join(<<NL, NL>>, ps) : ps \in ParagraphLists} :
        Len(d) <= MaxDocLen}

Directions == {"en-ar", "ar-en", "fr-en"}

----------------------------------------------------------------------------
(* State *)

VARIABLES
    norm_in,        \* Normalizer run: the input x
    norm_once,      \* clean_and_prepare_text(x)
    norm_twice,     \* clean_and_prepare_text(clean_and_prepare_text(x))
    norm_pc,        \* number of applications done
    seg_text,       \* Segmenter run: the text argument
    seg_max,        \* the max_length argument
    seg_sentences,  \* the `sentences` list of each long paragraph (line 103)
    seg_chunks,     \* the returned chunks
    seg_done,       \* split_text_smart has returned
    text,           \* Orchestrator run: the text argument
    direction,      \* the direction argument
    pc,             \* position in translate_with_structure_preservation
    cleaned_text,   \* line 201
    paragraphs,     \* line 218
    i,              \* 1-based index of the paragraph being processed
    chunks,         \* line 238
    j,              \* 1-based index of the chunk being processed
    translated_chunks,      \* line 239
    translated_paragraphs,  \* line 219
    ret,            \* the returned pair (text, error)
    calls,          \* arguments of the translate_chunk_robust calls so far
    replies         \* what each of those calls returned

norm_vars == <<norm_in, norm_once, norm_twice, norm_pc>>
seg_vars  == <<seg_text, seg_max, seg_sentences, seg_chunks, seg_done>>
orch_vars == <<text, direction, pc, cleaned_text, paragraphs, i, chunks, j,
               translated_chunks, translated_paragraphs, ret, calls, replies>>
vars == <<norm_vars, seg_vars, orch_vars>>

NormIdle ==
    /\ norm_in = <<>> /\ norm_once = None /\ norm_twice = None
    /\ norm_pc = 2

SegIdle ==
    /\ seg_text = <<>> /\ seg_max = 1 /\ seg_sentences = <<>>
    /\ seg_chunks = <<>> /\ seg_done = TRUE

OrchFresh ==
    /\ cleaned_text = None /\ paragraphs = <<>> /\ i = 0
    /\ chunks = <<>> /\ j = 0
    /\ translated_chunks = <<>> /\ translated_paragraphs = <<>>
    /\ ret = <<None, None>> /\ calls = <<>> /\ replies = <<>>

OrchIdle ==
    /\ text = <<>> /\ direction = "en-ar" /\ pc = "done" /\ OrchFresh

----------------------------------------------------------------------------
(* Normalizer runs *)

NormInit ==
    /\ norm_in \in NormInputs
    /\ norm_once = None /\ norm_twice = None /\ norm_pc = 0
    /\ SegIdle /\ OrchIdle

NormalizeOnce ==
    /\ norm_pc = 0
    /\ norm_once' = clean_and_prepare_text(norm_in)
    /\ norm_pc' = 1
    /\ UNCHANGED <<norm_in, norm_twice, seg_vars, orch_vars>>

NormalizeTwice ==
    /\ norm_pc = 1
    /\ norm_twice' = clean_and_prepare_text(norm_once)
    /\ norm_pc' = 2
    /\ UNCHANGED <<norm_in, norm_once, seg_vars, orch_vars>>

NormNext == NormalizeOnce \/ NormalizeTwice
NormSpec == NormInit /\ [][NormNext]_vars

----------------------------------------------------------------------------
(* Segmenter runs *)

\* the stripped paragraphs of the text that are longer than max_length
RECURSIVE long_paragraphs(_, _)
long_paragraphs(ps, max_length) ==
    IF ps = <<>> THEN <<>>
    ELSE IF Len(strip(ps[1])) > max_length
         THEN <<strip(ps[1])>> \o long_paragraphs(Tail(ps), max_length)
         ELSE long_paragraphs(Tail(ps), max_length)

SegInit ==
    /\ seg_text \in SegInputs
    /\ seg_max \in 1..MaxSegBudget
    /\ seg_sentences = <<>> /\ seg_chunks = <<>> /\ seg_done = FALSE
    /\ NormIdle /\ OrchIdle

Segment ==
    /\ ~seg_done
    /\ seg_chunks' = split_text_smart(seg_text, seg_max)
    /\ seg_sentences' =
          LET lp == long_paragraphs(split(seg_text, <<NL, NL>>), seg_max)
          IN  [k \in 1..Len(lp) |-> split_sentences(lp[k])]
    /\ seg_done' = TRUE
    /\ UNCHANGED <<seg_text, seg_max, norm_vars, orch_vars>>

SegNext == Segment
SegSpec == SegInit /\ [][SegNext]_vars

----------------------------------------------------------------------------
(* Orchestrator runs: translate_with_structure_preservation, lines 197-264 *)

Init ==
    /\ text \in Documents
    /\ direction \in Directions
    /\ pc = "start"
    /\ OrchFresh
    /\ NormIdle /\ SegIdle

\* the engine call: translate_chunk_robust(chunk, direction) with the
\* generation outcomes first / second, recorded in calls and replies
EngineCall(chunk, first, second) ==
    /\ calls' = Append(calls, chunk)
    /\ replies' =
          Append(replies, translate_chunk_robust(chunk, direction, first, second))

\* line 201: the text is normalized
Normalize ==
    /\ pc = "start"
    /\ cleaned_text' = clean_and_prepare_text(text)
    /\ pc' = "cleaned"
    /\ UNCHANGED <<text, direction, paragraphs, i, chunks, j, translated_chunks,
                   translated_paragraphs, ret, calls, replies, norm_vars,
                   seg_vars>>

\* lines 203-204: normalized text blank, return ("", None)
ShortCircuit ==
    /\ pc = "cleaned"
    /\ is_blank(cleaned_text)
    /\ ret' = << <<>>, None >>
    /\ pc' = "done"
    /\ UNCHANGED <<text, direction, cleaned_text, paragraphs, i, chunks, j,
                   translated_chunks, translated_paragraphs, calls, replies,
                   norm_vars, seg_vars>>

\* lines 209-212: short text, translated directly; the engine's pair is
\* returned as it is
TranslateDirect ==
    /\ pc = "cleaned"
    /\ ~is_blank(cleaned_text)
    /\ Len(cleaned_text) <= Budget
    /\ \E first \in Generations, second \in Generations :
          /\ EngineCall(cleaned_text, first, second)
          /\ ret' = translate_chunk_robust(cleaned_text, direction, first, second)
    /\ pc' = "done"
    /\ UNCHANGED <<text, direction, cleaned_text, paragraphs, i, chunks, j,
                   translated_chunks, translated_paragraphs, norm_vars,
                   seg_vars>>

\* lines 214-219: long text, split into paragraphs
SplitParagraphs ==
    /\ pc = "cleaned"
    /\ ~is_blank(cleaned_text)
    /\ Len(cleaned_text) > Budget
    /\ paragraphs' = split(cleaned_text, <<NL, NL>>)
    /\ translated_paragraphs' = <<>>
    /\ i' = 1
    /\ pc' = "paragraph"
    /\ UNCHANGED <<text, direction, cleaned_text, chunks, j, translated_chunks,
                   ret, calls, replies, norm_vars, seg_vars>>

\* a plausible slip at lines 224-226: the blank paragraph is sent to the engine
\* (which returns "" for it, line 139) instead of being skipped
BlankParagraphTranslated ==
    /\ pc = "paragraph" /\ i <= Len(paragraphs)
    /\ strip(paragraphs[i]) = <<>>
    /\ \E first \in Generations, second \in Generations :
          EngineCall(strip(paragraphs[i]), first, second)
    /\ translated_paragraphs' = Append(translated_paragraphs, <<>>)
    /\ i' = i + 1
    /\ UNCHANGED <<text, direction, pc, cleaned_text, paragraphs, chunks, j,
                   translated_chunks, ret, norm_vars, seg_vars>>

\* lines 222-226: blank paragraph
BlankParagraph ==
    /\ pc = "paragraph" /\ i <= Len(paragraphs)
    /\ strip(paragraphs[i]) = <<>>
    /\ translated_paragraphs' = Append(translated_paragraphs, <<>>)
    /\ i' = i + 1
    /\ UNCHANGED <<text, direction, pc, cleaned_text, paragraphs, chunks, j,
                   translated_chunks, ret, calls, replies, norm_vars, seg_vars>>

\* lines 231-235: paragraph within the budget, one engine call
TranslateParagraph ==
    /\ pc = "paragraph" /\ i <= Len(paragraphs)
    /\ strip(paragraphs[i]) # <<>>
    /\ Len(strip(paragraphs[i])) <= Budget
    /\ \E first \in Generations, second \in Generations :
          LET paragraph == strip(paragraphs[i])
              reply == translate_chunk_robust(paragraph, direction, first, second)
          IN  /\ EngineCall(paragraph, first, second)
              /\ IF truthy(reply[2])
                 THEN /\ ret' = <<None, paragraph_error(i, reply[2])>>
                      /\ pc' = "done"
                      /\ UNCHANGED <<translated_paragraphs, i>>
                 ELSE /\ translated_paragraphs' =
                            Append(translated_paragraphs, reply[1])
                      /\ i' = i + 1
                      /\ UNCHANGED <<ret, pc>>
    /\ UNCHANGED <<text, direction, cleaned_text, paragraphs, chunks, j,
                   translated_chunks, norm_vars, seg_vars>>

\* lines 236-239: paragraph over the budget, split into chunks
SplitParagraph ==
    /\ pc = "paragraph" /\ i <= Len(paragraphs)
    /\ Len(strip(paragraphs[i])) > Budget
    /\ chunks' = split_text_smart(strip(paragraphs[i]), Budget)
    /\ translated_chunks' = <<>>
    /\ j' = 1
    /\ pc' = "chunk"
    /\ UNCHANGED <<text, direction, cleaned_text, paragraphs, i,
                   translated_paragraphs, ret, calls, replies, norm_vars,
                   seg_vars>>

\* lines 241-247: one chunk of a long paragraph, one engine call
TranslateChunk ==
    /\ pc = "chunk" /\ j <= Len(chunks)
    /\ \E first \in Generations, second \in Generations :
          LET reply == translate_chunk_robust(chunks[j], direction, first, second)
          IN  /\ EngineCall(chunks[j], first, second)
              /\ IF truthy(reply[2])
                 THEN /\ ret' = <<None, chunk_error(j, i, reply[2])>>
                      /\ pc' = "done"
                      /\ UNCHANGED <<translated_chunks, j>>
                 ELSE /\ translated_chunks' =
                            collect_chunk(translated_chunks, reply[1])
                      /\ j' = j + 1
                      /\ UNCHANGED <<ret, pc>>
    /\ UNCHANGED <<text, direction, cleaned_text, paragraphs, i, chunks,
                   translated_paragraphs, norm_vars, seg_vars>>

\* lines 249-251: all chunks done, the paragraph's translation is joined
JoinChunks ==
    /\ pc = "chunk" /\ j > Len(chunks)
    /\ translated_paragraphs' =
          Append(translated_paragraphs, paragraph_translation(translated_chunks))
    /\ i' = i + 1
    /\ pc' = "paragraph"
    /\ UNCHANGED <<text, direction, cleaned_text, paragraphs, chunks, j,
                   translated_chunks, ret, calls, replies, norm_vars, seg_vars>>

\* lines 253-260: all paragraphs done, the document is reassembled
Reassemble ==
    /\ pc = "paragraph" /\ i > Len(paragraphs)
    /\ ret' = <<final_translation(translated_paragraphs), None>>
    /\ pc' = "done"
    /\ UNCHANGED <<text, direction, cleaned_text, paragraphs, i, chunks, j,
                   translated_chunks, translated_paragraphs, calls, replies,
                   norm_vars, seg_vars>>

Next ==
    \/ Normalize
    \/ ShortCircuit
    \/ TranslateDirect
    \/ SplitParagraphs
    \/ BlankParagraph
    \/ TranslateParagraph
    \/ SplitParagraph
    \/ TranslateChunk
    \/ JoinChunks
    \/ Reassemble

Spec == Init /\ [][Next]_vars

----------------------------------------------------------------------------
(* Vocabulary of the properties *)

Done == pc = "done"

AllWhitespace(s) == \A k \in 1..Len(s) : s[k] \in Whitespace

\* the normalized text of the input
Normalized == clean_and_prepare_text(text)

\* a normalized text that takes the structured path: over the budget
OverBudget(normalized) ==
    Len(normalized) > Budget /\ ~AllWhitespace(normalized)

Failed(reply) == reply[2] # None
EveryCallSucceeded == \A k \in 1..Len(replies) : ~Failed(replies[k])
SomeCallFailed == \E k \in 1..Len(replies) : Failed(replies[k])

\* the units of paragraphs p.. of the double-newline split ps, in document
\* order: none for a blank paragraph, <<p, 0, paragraph>> for a paragraph
\* within the budget, and <<p, c, chunk c>> for each Segmenter chunk of a
\* longer paragraph
RECURSIVE UnitsFrom(_, _)
UnitsFrom(ps, p) ==
    IF p > Len(ps) THEN <<>>
    ELSE LET paragraph == strip(ps[p])
             cs == split_text_smart(paragraph, Budget)
             here == IF paragraph = <<>> THEN <<>>
                     ELSE IF Len(paragraph) <= Budget
                          THEN << <<p, 0, paragraph>> >>
                     ELSE [c \in 1..Len(cs) |-> <<p, c, cs[c]>>]
         IN  here \o UnitsFrom(ps, p + 1)

\* the indices, among the first n units, of the units of paragraph p
UnitsOf(units, n, p) ==
    SelectSeq([k \in 1..n |-> k], LAMBDA k : units[k][1] = p)

NonEmpty(results) == SelectSeq(results, LAMBDA r : r # <<>>)

----------------------------------------------------------------------------
(* C1 *)

\* C1 (blank-line preservation), as claimed: on the structured path with every
\* engine call succeeding, the returned string is the k paragraph results, in
\* order, joined by double newlines, an empty paragraph kept as an empty
\* placeholder (up to the trim of the outer edges of the final string).
C1_BlankLinesPreserved ==
    (Done /\ EveryCallSucceeded /\ Len(translated_paragraphs) > 0) =>
        LET normalized == Normalized
        IN  OverBudget(normalized) =>
              /\ Len(translated_paragraphs) = Len(split(normalized, <<NL, NL>>))
              /\ ret = <<strip(join(<<NL, NL>>, translated_paragraphs)), None>>

----------------------------------------------------------------------------
(* C2 *)

\* C2 (fail-fast): once an engine call has returned a failure, that call is the
\* last one of the run, the run has returned, the returned text is None and
\* the returned error is a non-empty string.
C2_FailFast ==
    \A k \in 1..Len(replies) :
        Failed(replies[k]) =>
            /\ k = Len(replies)
            /\ Done
            /\ ret[1] = None
            /\ ret[2] # None /\ ret[2] # <<>>

\* a run that failed after two engine calls had succeeded
C2_Witness ==
    /\ Done
    /\ Len(replies) >= 3
    /\ Failed(replies[Len(replies)])
    /\ ~Failed(replies[1]) /\ replies[1][1] # <<>>

----------------------------------------------------------------------------
(* C3 *)

\* C3 (empty-input short-circuit): for an input of nothing but whitespace the
\* engine is never called, and the run returns ("", None).
C3_EmptyInputShortCircuit ==
    AllWhitespace(text) =>
        /\ calls = <<>>
        /\ Done => ret = << <<>>, None >>

\* the run on "   \n\n  " has returned
C3_Witness ==
    /\ Done
    /\ text = <<SP, SP, SP, NL, NL, SP, SP>>
    /\ ret = << <<>>, None >>

----------------------------------------------------------------------------
(* C4 *)

IsSubstring(c, s) ==
    \E k \in 0..(Len(s) - Len(c)) : SubSeq(s, k + 1, k + Len(c)) = c

\* C4 (soft budget), as claimed: every chunk is within max_length, or else it
\* is a piece of the input text, unaltered.
C4_OversizedChunkUnmodified ==
    seg_done =>
        \A n \in 1..Len(seg_chunks) :
            \/ Len(seg_chunks[n]) <= seg_max
            \/ IsSubstring(seg_chunks[n], seg_text)

\* chunk c is exactly one sentence of the split: the stripped sentence alone
\* when it is the last of its paragraph, otherwise the stripped sentence
\* followed by the ending added back, "." or the Arabic comma
IsOneSentence(c, sentences) ==
    \E n \in 1..Len(sentences) :
        LET sentence == strip(sentences[n])
        IN  /\ sentence # <<>>
            /\ \/ n = Len(sentences) /\ c = sentence
               \/ /\ n < Len(sentences)
                  /\ \E m \in 1..Len(sentence) : sentence[m] \in LatinLetters
                  /\ c = sentence \o <<".">>
               \/ /\ n < Len(sentences)
                  /\ \A m \in 1..Len(sentence) : sentence[m] \notin LatinLetters
                  /\ c = sentence \o <<ARABIC_COMMA>>

\* C4 (soft budget), amended: every chunk is within max_length, or else it is
\* exactly one sentence of the pattern's split of a long paragraph, its text
\* kept up to the terminator and the terminator replaced by the ending the
\* Segmenter adds back (none for the last sentence of the paragraph).
C4_SoftBudget ==
    seg_done =>
        \A n \in 1..Len(seg_chunks) :
            \/ Len(seg_chunks[n]) <= seg_max
            \/ \E p \in 1..Len(seg_sentences) :
                  IsOneSentence(seg_chunks[n], seg_sentences[p])

\* an oversized chunk that is one sentence with its "!" replaced by "."
C4_Witness ==
    /\ seg_done
    /\ seg_text = <<"a", "a", "!", SP, "a">>
    /\ seg_max = 1
    /\ seg_chunks = << <<"a", "a", ".">>, <<"a">> >>

----------------------------------------------------------------------------
(* C5 *)

\* the engine's translations for the chunks of paragraph p, in call order
ChunkResults(units, p) ==
    LET ks == UnitsOf(units, Len(calls), p)
    IN  [n \in 1..Len(ks) |-> replies[ks[n]][1]]

\* the paragraphs translated so far that are longer than the budget
LongParagraphsDone ==
    {p \in 1..Len(translated_paragraphs) : Len(strip(paragraphs[p])) > Budget}

\* C5 (chunk order preservation), as claimed: the translation of a long
\* paragraph is the engine's results for its chunks, in chunk order, joined by
\* one space between consecutive results.
C5_AllResultsJoined ==
    LongParagraphsDone # {} =>
        LET units == UnitsFrom(paragraphs, 1)
        IN  \A p \in LongParagraphsDone :
               translated_paragraphs[p] = join(<<SP>>, ChunkResults(units, p))

\* C5 (chunk order preservation), amended: the translation of a long paragraph
\* is the non-empty engine results for its chunks, in chunk order, joined by
\* one space between consecutive results (an empty result leaves no trace).
C5_ChunkOrderPreserved ==
    LongParagraphsDone # {} =>
        LET units == UnitsFrom(paragraphs, 1)
        IN  \A p \in LongParagraphsDone :
               /\ Len(ChunkResults(units, p)) = Len(UnitsOf(units, Len(units), p))
               /\ translated_paragraphs[p] =
                     join(<<SP>>, NonEmpty(ChunkResults(units, p)))

\* a long paragraph of three chunks translated to "x", "y", "x" in that order
C5_Witness ==
    /\ Len(translated_paragraphs) = 1
    /\ Len(strip(paragraphs[1])) > Budget
    /\ replies = << <<<<"x">>, None>>, <<<<"y">>, None>>, <<<<"x">>, None>> >>
    /\ translated_paragraphs[1] = <<"x", SP, "y", SP, "x">>

----------------------------------------------------------------------------
(* C6 *)

\* C6 (idempotent normalization): normalizing the normalized text gives the
\* normalized text again.
C6_IdempotentNormalization ==
    (norm_pc = 2 /\ norm_once # None) => norm_twice = norm_once

\* an input with runs of whitespace and a blank line, normalized twice
C6_Witness ==
    /\ norm_pc = 2
    /\ norm_in = <<"a", SP, TAB, "a", NL>>
    /\ norm_once = <<"a", SP, "a", NL>>
    /\ norm_twice = norm_once

----------------------------------------------------------------------------
(* C7 *)

\* ps is two non-blank paragraphs, each within the budget
TwoShortParagraphs(ps) ==
    /\ Len(ps) = 2
    /\ \A p \in 1..2 :
          strip(ps[p]) # <<>> /\ Len(strip(ps[p])) <= Budget

TwoCallsInOrder(ps) ==
    /\ Len(calls) = 2
    /\ calls[1] = strip(ps[1])
    /\ calls[2] = strip(ps[2])

\* C7 (two-paragraph scenario), as claimed: two engine calls, one per
\* paragraph in order, and the two translations returned with a blank line
\* between them.
C7_AlwaysTwoCalls ==
    (Done /\ EveryCallSucceeded) =>
        LET ps == split(Normalized, <<NL, NL>>)
        IN  TwoShortParagraphs(ps) =>
              /\ TwoCallsInOrder(ps)
              /\ ret = <<replies[1][1] \o <<NL, NL>> \o replies[2][1], None>>

\* C7 (two-paragraph scenario), amended: when the normalized text is over the
\* budget there are two engine calls, one per paragraph in order, and the
\* non-empty ones of the two translations are returned with a blank line
\* between them; when it is within the budget there is one engine call, on
\* the whole normalized text, and its result is returned.
C7_TwoParagraphs ==
    (Done /\ EveryCallSucceeded) =>
        LET normalized == Normalized
            ps == split(normalized, <<NL, NL>>)
        IN  TwoShortParagraphs(ps) =>
              IF Len(normalized) > Budget
              THEN /\ TwoCallsInOrder(ps)
                   /\ ret[2] = None
                   /\ ret[1] =
                         IF replies[1][1] # <<>> /\ replies[2][1] # <<>>
                         THEN replies[1][1] \o <<NL, NL>> \o replies[2][1]
                         ELSE replies[1][1] \o replies[2][1]
              ELSE /\ calls = <<normalized>>
                   /\ ret = replies[1]

\* two 200-character paragraphs translated to "x" and "y"
C7_Witness ==
    /\ Done
    /\ Len(calls) = 2
    /\ calls[1] = ShortPara /\ calls[2] = ShortPara
    /\ text = ShortPara \o <<NL, NL>> \o ShortPara
    /\ ret = << <<"x", NL, NL, "y">>, None >>

----------------------------------------------------------------------------
(* C8 *)

\* C8 (greedy packing scenario), as claimed: a paragraph of three Latin
\* sentences of 150 characters each is split into two chunks.
C8_ThreeSentencesTwoChunks ==
    (pc = "chunk" /\ strip(paragraphs[i]) = Sentences150) => Len(chunks) = 2

\* the calls made so far for paragraph p are the first of chunk list cs
CalledInOrder(units, p, cs) ==
    LET ks == UnitsOf(units, Len(calls), p)
    IN  /\ Len(ks) <= Len(cs)
        /\ \A n \in 1..Len(ks) : calls[ks[n]] = cs[n]

\* C8 (greedy packing scenario), amended: a sentence is appended to the buffer
\* when the buffer plus the sentence with its ending ". " added back fits the
\* budget.  Three sentences of 150 characters (full stop included) count 151
\* each and are not packed: three chunks of one sentence, three engine calls.
\* Three sentences of 149 characters are split into two chunks, sentences 1
\* and 2 (299 characters) and sentence 3: two engine calls.  The non-empty
\* results are joined with a space.
C8_GreedyPacking ==
    (pc = "chunk" \/ LongParagraphsDone # {}) =>
        LET units == UnitsFrom(paragraphs, 1)
            three == <<Sentence(Budget \div 2), Sentence(Budget \div 2),
                       Sentence(Budget \div 2)>>
            two == <<Sentence(Budget \div 2 - 1) \o <<SP>>
                         \o Sentence(Budget \div 2 - 1),
                     Sentence(Budget \div 2 - 1)>>
            expected(p) == IF strip(paragraphs[p]) = Sentences150 THEN three
                           ELSE two
        IN  /\ pc = "chunk" =>
                 /\ chunks = expected(i)
                 /\ CalledInOrder(units, i, chunks)
            /\ \A p \in LongParagraphsDone :
                 /\ CalledInOrder(units, p, expected(p))
                 /\ Len(UnitsOf(units, Len(calls), p)) = Len(expected(p))
                 /\ translated_paragraphs[p] =
                       join(<<SP>>, NonEmpty(ChunkResults(units, p)))

\* the 149-character sentences translated with two engine calls, joined
C8_Witness ==
    /\ Len(translated_paragraphs) = 1
    /\ strip(paragraphs[1]) = Sentences149
    /\ Len(calls) = 2
    /\ Len(calls[1]) = Budget - 1
    /\ translated_paragraphs[1] = <<"x", SP, "y">>

----------------------------------------------------------------------------
(* C9 *)

\* C9 (failure locator): when an engine call fails on the structured path,
\* the returned error names the 1-based paragraph index of the failing unit
\* and, for a chunk of a long paragraph, its 1-based chunk index, followed by
\* the engine's reason.
C9_FailureLocator ==
    (Done /\ SomeCallFailed) =>
        LET normalized == Normalized
            units == UnitsFrom(split(normalized, <<NL, NL>>), 1)
            n == Len(calls)
        IN  OverBudget(normalized) =>
              /\ n <= Len(units)
              /\ calls[n] = units[n][3]
              /\ ret[2] =
                    IF units[n][2] = 0
                    THEN <<"Failed to translate paragraph ",
                           ToString(units[n][1]), ": ">> \o replies[n][2]
                    ELSE <<"Failed to translate chunk ",
                           ToString(units[n][2]), " of paragraph ",
                           ToString(units[n][1]), ": ">> \o replies[n][2]

\* the engine failed on the second of the three chunks of the second paragraph
C9_Witness ==
    /\ Done
    /\ Len(paragraphs) = 2
    /\ strip(paragraphs[2]) = Sentences150
    /\ Len(calls) = 3
    /\ ret = <<None, <<"Failed to translate chunk ", "2", " of paragraph ", "2",
                       ": ", "Translation failed: ", "generation error">> >>

----------------------------------------------------------------------------
(* C10 *)

\* the six sentence terminators the specification lists
SpecTerminators ==
    {".", "!", "?", ARABIC_QUESTION_MARK, ARABIC_FULL_STOP, DEVANAGARI_DANDA}

\* the split of a paragraph at every run of the six terminators followed by
\* whitespace
split_sentences_six(paragraph) == re_split(paragraph, SpecTerminators)

\* the stripped paragraphs of the Segmenter's input longer than max_length
SegLongParagraphs == long_paragraphs(split(seg_text, <<NL, NL>>), seg_max)

\* C10 (sentence splitting alphabet), as claimed: the sentences of a long
\* paragraph are what is left when every run of one or more of the six
\* terminators followed by whitespace is cut out.
C10_SixTerminators ==
    seg_done =>
        /\ Len(seg_sentences) = Len(SegLongParagraphs)
        /\ \A p \in 1..Len(seg_sentences) :
              seg_sentences[p] = split_sentences_six(SegLongParagraphs[p])

----------------------------------------------------------------------------
(* C11 *)

\* the texts of the units, in document order
UnitTexts(units) == [k \in 1..Len(units) |-> units[k][3]]

\* the engine calls made so far are the first units of the document, in
\* document order, and all of them once the run has returned with success
CallsFollowUnits ==
    (calls # <<>> \/ Done) =>
        LET normalized == Normalized
            units == UnitsFrom(split(normalized, <<NL, NL>>), 1)
        IN  OverBudget(normalized) =>
              /\ Len(calls) <= Len(units)
              /\ calls = SubSeq(UnitTexts(units), 1, Len(calls))
              /\ \A k \in 1..(Len(calls) - 1) :
                    \/ units[k][1] < units[k + 1][1]
                    \/ /\ units[k][1] = units[k + 1][1]
                       /\ units[k][2] < units[k + 1][2]
              /\ (Done /\ EveryCallSucceeded) => Len(calls) = Len(units)

\* C11 (dispatch order): on the structured path the engine calls are issued
\* one at a time, in document order: at every moment the calls made are the
\* first units of the document (none for a blank paragraph, one for a
\* paragraph within the budget, one per Segmenter chunk of a long paragraph),
\* each step adds at most one call after those already made, and on success
\* the call sequence is the whole unit list.
C11_DispatchOrder ==
    /\ []CallsFollowUnits
    /\ [][/\ Len(calls') <= Len(calls) + 1
          /\ Len(calls') >= Len(calls)
          /\ SubSeq(calls', 1, Len(calls)) = calls]_vars

\* a run over a short paragraph, a blank paragraph and the three chunks of a
\* long paragraph has returned with success after four calls
C11_Witness ==
    /\ Done
    /\ EveryCallSucceeded
    /\ Len(paragraphs) = 3
    /\ strip(paragraphs[2]) = <<>>
    /\ calls = <<ShortPara, Sentence(Budget \div 2), Sentence(Budget \div 2),
                 Sentence(Budget \div 2)>>

====
